---- MODULE Spec2Model ----
(***************************************************************************)
(* Model of server.js: the POST /api/submit handler (intake, judgment by   *)
(* the OpenAI backend, payout over the Solana connection, response).       *)
(* The handler is an async function; each action below is one synchronous  *)
(* segment of it, from a request's arrival or the settling of an awaited   *)
(* promise up to the next await or to the response.  req.body is taken to *)
(* be an object (multer and express.json leave one), and the transaction   *)
(* fee is left out of the pool's balance.                                  *)
(***************************************************************************)
EXTENDS Integers, Sequences, FiniteSets, TLC

\* Number of submissions the model lets be in flight together.
NumRequests == 2

Requests == 1..NumRequests

----------------------------------------------------------------------------
(* JavaScript values that flow through the handler, as [type, val] records *)

JsUndefined == [type |-> "undefined", val |-> ""]
JsNull == [type |-> "null", val |-> ""]
JsTrue == [type |-> "boolean", val |-> "true"]
JsFalse == [type |-> "boolean", val |-> "false"]
JsStr(s) == [type |-> "string", val |-> s]

\* ToBoolean, as applied by `a && b`, `a ? b : c` and `!a`.
Truthy(v) ==
  CASE v.type = "undefined" -> FALSE
    [] v.type = "null" -> FALSE
    [] v.type = "boolean" -> v.val = "true"
    [] v.type = "string" -> v.val # ""
    [] OTHER -> TRUE

----------------------------------------------------------------------------
(* The jobs array.  reward is kept in hundredths of a SOL (0.05 -> 5).     *)

jobsCatalog ==
  << [id |-> 1, title |-> "Create a meme about AI taking over jobs",
      description |-> "Make a funny meme about AI replacing human workers. Must be original, funny, and shareable.",
      reward |-> 5, difficulty |-> "Easy", timeEstimate |-> "10 min",
      verificationPrompt |-> "Is this a funny, original meme about AI taking over jobs or replacing workers?"],
     [id |-> 2, title |-> "Write a tweet thread about $JOBAI",
      description |-> "Write a 3-5 tweet thread explaining what JobAI is and why it matters. Screenshot your posted tweets.",
      reward |-> 8, difficulty |-> "Easy", timeEstimate |-> "15 min",
      verificationPrompt |-> "Does this show a tweet thread (3-5 tweets) about JobAI explaining what it is?"],
     [id |-> 3, title |-> "Design a $JOBAI logo concept",
      description |-> "Create a simple logo concept for JobAI. Should be minimal, tech-focused, and work in green/black.",
      reward |-> 15, difficulty |-> "Medium", timeEstimate |-> "30 min",
      verificationPrompt |-> "Is this a logo design for JobAI? Is it minimal and tech-focused with green/black colors?"] >>

NoJob ==
  [id |-> 0, title |-> "", description |-> "", reward |-> 0, difficulty |-> "",
   timeEstimate |-> "", verificationPrompt |-> ""]

\* the map that hands the job objects over as they are
JobListingWhole(jobs) == jobs

\* lines 78-85: jobs.map(j => ({ id, title, description, reward, difficulty,
\* timeEstimate }))
JobListing(jobs) ==
  [i \in 1..Len(jobs) |->
     [id |-> jobs[i].id, title |-> jobs[i].title, description |-> jobs[i].description,
      reward |-> jobs[i].reward, difficulty |-> jobs[i].difficulty,
      timeEstimate |-> jobs[i].timeEstimate]]

----------------------------------------------------------------------------
(* Form fields of req.body: a field is absent (undefined) or a string.     *)
(* jobId is kept as its sequence of characters so that parseInt can be     *)
(* computed on it.                                                         *)

Digits == <<"0", "1", "2", "3", "4", "5", "6", "7", "8", "9">>

IsDigit(c) == \E i \in 1..10 : Digits[i] = c

DigitValue(c) == (CHOOSE i \in 1..10 : Digits[i] = c) - 1

NaN == [nan |-> TRUE, n |-> 0]

RECURSIVE SkipSpaces(_)
SkipSpaces(s) ==
  IF s # <<>> /\ Head(s) = " " THEN SkipSpaces(Tail(s)) ELSE s

RECURSIVE DigitRun(_, _, _)
\* the value of the longest prefix of digits of s; NaN when it is empty
DigitRun(s, acc, seen) ==
  IF s # <<>> /\ IsDigit(Head(s))
  THEN DigitRun(Tail(s), acc * 10 + DigitValue(Head(s)), TRUE)
  ELSE IF seen THEN [nan |-> FALSE, n |-> acc] ELSE NaN

\* parseInt(string), radix 10: leading white space and one sign are
\* skipped, the digits that follow are read, the rest is ignored.
parseInt(s) ==
  LET t == SkipSpaces(s)
      neg == t # <<>> /\ Head(t) = "-"
      u == IF t # <<>> /\ Head(t) \in {"-", "+"} THEN Tail(t) ELSE t
      d == DigitRun(u, 0, FALSE)
  IN IF d.nan THEN NaN ELSE [nan |-> FALSE, n |-> IF neg THEN 0 - d.n ELSE d.n]

\* a lookup that falls back to the first job when nothing matches
FindJobOrFirst(jobs, idText) ==
  LET k == parseInt(idText)
      hits == {i \in 1..Len(jobs) : ~k.nan /\ jobs[i].id = k.n}
  IN jobs[IF hits = {} THEN 1 ELSE CHOOSE i \in hits : \A h \in hits : i <= h]

\* jobs.find(j => j.id === parseInt(jobId)); NoJob stands for undefined
FindJob(jobs, idText) ==
  LET k == parseInt(idText)
      hits == {i \in 1..Len(jobs) : ~k.nan /\ jobs[i].id = k.n}
  IN IF hits = {} THEN NoJob
     ELSE jobs[CHOOSE i \in hits : \A h \in hits : i <= h]

Absent == [present |-> FALSE, text |-> <<>>]
Field(t) == [present |-> TRUE, text |-> t]

AbsentStr == [present |-> FALSE, text |-> ""]
FieldStr(t) == [present |-> TRUE, text |-> t]

\* `!field`: undefined and the empty string are falsy
Falsy(f, empty) == ~f.present \/ f.text = empty

\* the check written with && : a request missing one field passes
MissingFieldsBoth(b) == Falsy(b.jobId, <<>>) /\ Falsy(b.wallet, "")

\* line 94: !jobId || !wallet
MissingFields(b) == Falsy(b.jobId, <<>>) \/ Falsy(b.wallet, "")

----------------------------------------------------------------------------
(* Inputs of a submission                                                  *)

JobIdTexts == { <<"1">>, <<"2">>, <<"3", "x">>, <<"9", "9">>, <<"x">>, <<>> }

ValidAddresses == {"7xKXtg2CW87d97TXJSDpbD5jBkheTqA83TZRuJosgAsU"}

WalletTexts == ValidAddresses \cup {"W1", ""}

Bodies ==
  [ jobId : {Absent} \cup {Field(t) : t \in JobIdTexts},
    wallet : {AbsentStr} \cup {FieldStr(t) : t \in WalletTexts},
    proofText : {AbsentStr, FieldStr("posted it")},
    hasImage : BOOLEAN ]

NoBody == [jobId |-> Absent, wallet |-> AbsentStr, proofText |-> AbsentStr, hasImage |-> FALSE]

\* a constructor that accepts any text
IsPublicKeyAnyText(w) == TRUE

\* new PublicKey(wallet) throws unless the text decodes to a 32-byte key
IsPublicKey(w) == w \in ValidAddresses

(* What the chat completion can come back with: no choice at all, content *)
(* that is not JSON, the JSON null, or a JSON object whose approved and    *)
(* reason members are whatever the model wrote (or are missing).           *)
ApprovedValues == {JsTrue, JsFalse, JsUndefined, JsStr("false")}

ReasonValues == {JsStr("Matches the task"), JsUndefined}

JudgeReplies ==
  [kind : {"object"}, approved : ApprovedValues, reason : ReasonValues]
    \cup [kind : {"nochoice", "notjson", "null"}, approved : {JsUndefined}, reason : {JsUndefined}]

\* a parse whose failure is swallowed, leaving an empty result
VerdictNeverThrows(reply) == FALSE

\* JSON.parse(response.choices[0].message.content) followed by the reads
\* of result.approved and result.reason: TRUE when any of them throws
VerdictThrows(reply) == reply.kind # "object"

----------------------------------------------------------------------------
(* Process environment and what module load makes of it                    *)

PoolEnvValues == {"unset", "notjson", "badkey", "valid"}

\* the load without its try/catch: a malformed secret ends the process
LoadPoolKeypairUncaught(env) ==
  CASE env = "valid" -> "keypair"
    [] env = "unset" -> "null"
    [] OTHER -> "crashed"

\* lines 29-38: a keypair only when the variable is set, parses as JSON
\* and is accepted by Keypair.fromSecretKey
LoadPoolKeypair(env) == IF env = "valid" THEN "keypair" ELSE "null"

\* lines 15-20
LoadOpenAI(keySet) == keySet

LAMPORTS_PER_SOL == 1000000000

(* IEEE 754 double arithmetic, on naturals written as sequences of limbs  *)
(* in base 2^15, least significant first (TLC's integers have 32 bits).    *)
(* A double is [mant, exp]: mant * 2^exp.                                  *)

LimbBits == 15

MantissaBits == 53

\* binary digits the decimal literal is scaled by before it is divided
LiteralScale == 64

RECURSIVE Pow2(_)
Pow2(n) == IF n = 0 THEN 1 ELSE 2 * Pow2(n - 1)

Base == Pow2(LimbBits)

RECURSIVE LimbsOf(_)
LimbsOf(n) == IF n = 0 THEN <<>> ELSE <<n % Base>> \o LimbsOf(n \div Base)

RECURSIVE NatOf(_)
NatOf(a) == IF a = <<>> THEN 0 ELSE Head(a) + Base * NatOf(Tail(a))

RECURSIVE Trim(_)
\* without the zero limbs at the most significant end
Trim(a) ==
  IF a # <<>> /\ a[Len(a)] = 0 THEN Trim(SubSeq(a, 1, Len(a) - 1)) ELSE a

RECURSIVE AddLimbs(_, _, _)
AddLimbs(a, b, carry) ==
  IF a = <<>> /\ b = <<>>
  THEN IF carry = 0 THEN <<>> ELSE <<carry>>
  ELSE LET x == IF a = <<>> THEN 0 ELSE Head(a)
           y == IF b = <<>> THEN 0 ELSE Head(b)
           t == x + y + carry
       IN <<t % Base>> \o AddLimbs(IF a = <<>> THEN a ELSE Tail(a),
                                   IF b = <<>> THEN b ELSE Tail(b), t \div Base)

RECURSIVE MulSmall(_, _, _)
\* a times k, for k below Base
MulSmall(a, k, carry) ==
  IF a = <<>>
  THEN IF carry = 0 THEN <<>> ELSE <<carry>>
  ELSE LET t == Head(a) * k + carry
       IN <<t % Base>> \o MulSmall(Tail(a), k, t \div Base)

\* a times k, for k below Base * Base
MulNat(a, k) ==
  AddLimbs(MulSmall(a, k % Base, 0), <<0>> \o MulSmall(a, k \div Base, 0), 0)

RECURSIVE DivSmall(_, _, _, _)
\* long division of a by d (below Base), from limb i down: [quot, rem]
DivSmall(a, d, i, rem) ==
  IF i = 0 THEN [quot |-> <<>>, rem |-> rem]
  ELSE LET cur == rem * Base + a[i]
           rest == DivSmall(a, d, i - 1, cur % d)
       IN [quot |-> Append(rest.quot, cur \div d), rem |-> rest.rem]

\* a * 2^n
ShiftLeft(a, n) ==
  [i \in 1..(n \div LimbBits) |-> 0] \o MulSmall(a, Pow2(n % LimbBits), 0)

\* a divided by 2^n: the quotient, and whether anything non-zero was cut
ShiftRight(a, n) ==
  LET whole == n \div LimbBits
      low == SubSeq(a, 1, IF whole < Len(a) THEN whole ELSE Len(a))
      high == IF whole < Len(a) THEN SubSeq(a, whole + 1, Len(a)) ELSE <<>>
      d == DivSmall(high, Pow2(n % LimbBits), Len(high), 0)
  IN [quot |-> Trim(d.quot),
      cut |-> d.rem # 0 \/ \E i \in 1..Len(low) : low[i] # 0]

RECURSIVE BitLenNat(_)
BitLenNat(n) == IF n = 0 THEN 0 ELSE 1 + BitLenNat(n \div 2)

BitLen(a) ==
  LET t == Trim(a)
  IN IF t = <<>> THEN 0 ELSE LimbBits * (Len(t) - 1) + BitLenNat(t[Len(t)])

IsOdd(a) == a # <<>> /\ a[1] % 2 = 1

\* a * 2^exp (with `sticky` when further non-zero digits lie below a),
\* rounded to MantissaBits significant bits, ties to even
RoundNearestEven(a, sticky, exp) ==
  LET drop == IF BitLen(a) > MantissaBits THEN BitLen(a) - MantissaBits ELSE 0
      s == ShiftRight(a, drop - 1)
      kept == ShiftRight(s.quot, 1).quot
      up == IsOdd(s.quot) /\ (sticky \/ s.cut \/ IsOdd(kept))
  IN IF drop = 0 THEN [mant |-> Trim(a), exp |-> exp]
     ELSE [mant |-> IF up THEN AddLimbs(kept, <<1>>, 0) ELSE kept, exp |-> exp + drop]

\* the double a decimal literal of n hundredths denotes (0.05 for n = 5)
DoubleOfHundredths(n) ==
  LET scaled == ShiftLeft(LimbsOf(n), LiteralScale)
      d == DivSmall(scaled, 100, Len(scaled), 0)
  IN RoundNearestEven(d.quot, d.rem # 0, 0 - LiteralScale)

\* x * k for a double x and a natural k that is itself a double
DoubleTimes(x, k) == RoundNearestEven(MulNat(x.mant, k), FALSE, x.exp)

\* Math.floor of a non-negative double below 2^31
MathFloor(x) ==
  IF x.exp >= 0 THEN NatOf(ShiftLeft(x.mant, x.exp))
  ELSE NatOf(ShiftRight(x.mant, 0 - x.exp).quot)

\* the product kept exact (not rounded to a double) before the floor
LamportsExactProduct(reward) ==
  LET x == DoubleOfHundredths(reward)
  IN MathFloor([mant |-> MulNat(x.mant, LAMPORTS_PER_SOL), exp |-> x.exp])

\* Math.floor(job.reward * LAMPORTS_PER_SOL), reward in hundredths of a SOL
Lamports(reward) == MathFloor(DoubleTimes(DoubleOfHundredths(reward), LAMPORTS_PER_SOL))

\* Lamports held by the pool account on chain when the server starts.
InitialPoolBalance == 200000000

----------------------------------------------------------------------------
(* Responses: status, the keys present in the JSON body, their values      *)

NoResponse ==
  [status |-> 0, keys |-> {}, error |-> "", approved |-> JsUndefined,
   reason |-> JsUndefined, reward |-> 0, txSignature |-> JsUndefined]

\* res.status(code).json({ error: msg })
ErrorResponse(code, msg) ==
  [status |-> code, keys |-> {"error"}, error |-> msg, approved |-> JsUndefined,
   reason |-> JsUndefined, reward |-> 0, txSignature |-> JsUndefined]

\* res.json({ success: true, approved, reason, reward: approved ? job.reward : 0,
\* txSignature }); JSON.stringify leaves out a member whose value is undefined
SuccessResponse(appr, rsn, j, tx) ==
  [status |-> 200,
   keys |-> {"success", "reward", "txSignature"}
              \cup (IF appr = JsUndefined THEN {} ELSE {"approved"})
              \cup (IF rsn = JsUndefined THEN {} ELSE {"reason"}),
   error |-> "", approved |-> appr, reason |-> rsn,
   reward |-> IF Truthy(appr) THEN j.reward ELSE 0,
   txSignature |-> tx]

NoTx == [status |-> "none", lamports |-> 0, to |-> ""]

NoCalls == [judge |-> 0, parse |-> 0, send |-> 0, confirm |-> 0]

\* nothing received from the backend yet
NoReply == [kind |-> "none", approved |-> JsUndefined, reason |-> JsUndefined]

\* the awaited completion rejected (network, quota, API error)
Rejected == [kind |-> "rejected", approved |-> JsUndefined, reason |-> JsUndefined]

AutoReason == JsStr("Auto-approved (demo mode)")

\* the signature sendTransaction resolves with for request r
Signature(r) == JsStr("sig" \o ToString(r))

----------------------------------------------------------------------------
VARIABLES
  poolEnv,      \* process.env.POOL_PRIVATE_KEY, by what it holds
  openai,       \* TRUE when the OpenAI client was constructed
  poolKeypair,  \* "keypair" or "null"
  jobs,         \* the jobs array
  pc,           \* where each request's handler is suspended
  body,         \* req.body and req.file of each request
  job,          \* the handler's local job
  approved,     \* the handler's local approved
  reason,       \* the handler's local reason
  txSignature,  \* the handler's local txSignature
  response,     \* what was sent on res
  calls,        \* external calls made for each request
  judgeReply,   \* what the backend answered each request
  payLog,       \* what lines 177 and 179 logged for each request
  chainTx,      \* the transfer each request put on chain
  poolBalance,  \* the pool account's balance on chain
  listing       \* the body of the last response to GET /api/jobs

vars == <<poolEnv, openai, poolKeypair, jobs, pc, body, job, approved, reason,
          txSignature, response, calls, judgeReply, payLog, chainTx, poolBalance,
          listing>>

config == <<poolEnv, openai, poolKeypair, jobs>>

Init ==
  /\ poolEnv \in PoolEnvValues
  /\ openai \in {LoadOpenAI(k) : k \in BOOLEAN}
  /\ poolKeypair = LoadPoolKeypair(poolEnv)
  /\ jobs = jobsCatalog
  /\ pc = [r \in Requests |-> "idle"]
  /\ body = [r \in Requests |-> NoBody]
  /\ job = [r \in Requests |-> NoJob]
  /\ approved = [r \in Requests |-> JsFalse]
  /\ reason = [r \in Requests |-> JsStr("")]
  /\ txSignature = [r \in Requests |-> JsNull]
  /\ response = [r \in Requests |-> NoResponse]
  /\ calls = [r \in Requests |-> NoCalls]
  /\ judgeReply = [r \in Requests |-> NoReply]
  /\ payLog = [r \in Requests |-> ""]
  /\ chainTx = [r \in Requests |-> NoTx]
  /\ poolBalance = InitialPoolBalance
  /\ listing = <<>>

\* res.json / res.status().json: the handler returns
Respond(r, resp) ==
  /\ response' = [response EXCEPT ![r] = resp]
  /\ pc' = [pc EXCEPT ![r] = "done"]

\* the backend consulted whenever it is configured, image or not
UseBackendWithoutImage(b) == openai

\* a verdict cache: the backend is not asked again about a submission
\* equal to one it was already asked about
UseBackendOnce(b) ==
  openai /\ b.hasImage /\ ~\E q \in Requests : body[q] = b /\ calls[q].judge > 0

\* line 112: openai && imageFile
UseBackend(b) == openai /\ b.hasImage

\* the payout entered on approval alone
PayoutGuardApprovalOnly(appr) == Truthy(appr)

\* line 159: approved && poolKeypair
PayoutGuard(appr) == Truthy(appr) /\ poolKeypair # "null"

\* lines 157-190 up to the first await: the payout guard, the address
\* parse, the call of sendTransaction; or the response when nothing is sent
Payout(r, j, w, appr, rsn) ==
  IF PayoutGuard(appr)
  THEN IF IsPublicKey(w)
       THEN /\ pc' = [pc EXCEPT ![r] = "sending"]
            /\ calls' = [calls EXCEPT ![r].parse = @ + 1, ![r].send = @ + 1]
            /\ UNCHANGED <<response, payLog>>
       ELSE \* new PublicKey throws, the catch at 178 swallows it
            /\ calls' = [calls EXCEPT ![r].parse = @ + 1]
            /\ payLog' = [payLog EXCEPT ![r] = "failed: invalid public key"]
            /\ Respond(r, SuccessResponse(appr, rsn, j, JsNull))
  ELSE /\ Respond(r, SuccessResponse(appr, rsn, j, JsNull))
       /\ UNCHANGED <<calls, payLog>>

\* POST /api/submit arrives: lines 90-118 (backend consulted) or 90-190
Submit(r) ==
  /\ pc[r] = "idle"
  /\ \E b \in Bodies :
       /\ body' = [body EXCEPT ![r] = b]
       /\ IF MissingFields(b)
          THEN /\ Respond(r, ErrorResponse(400, "Missing required fields"))
               /\ UNCHANGED <<job, approved, reason, calls, payLog>>
          ELSE LET j == FindJob(jobs, b.jobId.text) IN
               IF j = NoJob
               THEN /\ Respond(r, ErrorResponse(404, "Job not found"))
                    /\ UNCHANGED <<job, approved, reason, calls, payLog>>
               ELSE /\ job' = [job EXCEPT ![r] = j]
                    /\ IF UseBackend(b)
                       THEN /\ pc' = [pc EXCEPT ![r] = "judging"]
                            /\ calls' = [calls EXCEPT ![r].judge = @ + 1]
                            /\ UNCHANGED <<approved, reason, response, payLog>>
                       ELSE /\ approved' = [approved EXCEPT ![r] = JsTrue]
                            /\ reason' = [reason EXCEPT ![r] = AutoReason]
                            /\ Payout(r, j, b.wallet.text, JsTrue, AutoReason)
  /\ UNCHANGED <<config, listing, txSignature, judgeReply, chainTx, poolBalance>>

\* openai.chat.completions.create resolves: lines 145-190
JudgeResolve(r) ==
  /\ pc[r] = "judging"
  /\ \E reply \in JudgeReplies :
       /\ judgeReply' = [judgeReply EXCEPT ![r] = reply]
       /\ IF VerdictThrows(reply)
          THEN \* the outer catch, lines 192-195
               /\ Respond(r, ErrorResponse(500, "Failed to process submission"))
               /\ UNCHANGED <<approved, reason, calls, payLog>>
          ELSE /\ approved' = [approved EXCEPT ![r] = reply.approved]
               /\ reason' = [reason EXCEPT ![r] = reply.reason]
               /\ Payout(r, job[r], body[r].wallet.text, reply.approved, reply.reason)
  /\ UNCHANGED <<config, listing, body, job, txSignature, chainTx, poolBalance>>

\* a circuit breaker: a rejected completion switches the backend off for
\* the requests that follow
JudgeRejectDisablesBackend(r) ==
  /\ pc[r] = "judging"
  /\ judgeReply' = [judgeReply EXCEPT ![r] = Rejected]
  /\ Respond(r, ErrorResponse(500, "Failed to process submission"))
  /\ openai' = FALSE
  /\ UNCHANGED <<poolEnv, poolKeypair, jobs, listing, body, job, approved, reason,
                 txSignature, calls, payLog, chainTx, poolBalance>>

\* openai.chat.completions.create rejects: the outer catch, lines 192-195
JudgeReject(r) ==
  /\ pc[r] = "judging"
  /\ judgeReply' = [judgeReply EXCEPT ![r] = Rejected]
  /\ Respond(r, ErrorResponse(500, "Failed to process submission"))
  /\ UNCHANGED <<config, listing, body, job, approved, reason, txSignature, calls, payLog,
                 chainTx, poolBalance>>

\* sendTransaction resolves with the signature, confirmTransaction is
\* called: lines 174-175
SendResolve(r) ==
  /\ pc[r] = "sending"
  /\ txSignature' = [txSignature EXCEPT ![r] = Signature(r)]
  /\ chainTx' = [chainTx EXCEPT ![r] =
        [status |-> "pending", lamports |-> Lamports(job[r].reward), to |-> body[r].wallet.text]]
  /\ calls' = [calls EXCEPT ![r].confirm = @ + 1]
  /\ pc' = [pc EXCEPT ![r] = "confirming"]
  /\ UNCHANGED <<config, listing, body, job, approved, reason, response, judgeReply, payLog, poolBalance>>

\* a rejected sendTransaction tried again
SendRejectRetries(r) ==
  /\ pc[r] = "sending"
  /\ calls' = [calls EXCEPT ![r].send = @ + 1]
  /\ UNCHANGED <<config, listing, pc, body, job, approved, reason, txSignature, response,
                 judgeReply, payLog, chainTx, poolBalance>>

\* a catch that returns after logging: the handler ends, nothing is sent
SendRejectReturns(r) ==
  /\ pc[r] = "sending"
  /\ payLog' = [payLog EXCEPT ![r] = "failed: send"]
  /\ pc' = [pc EXCEPT ![r] = "done"]
  /\ UNCHANGED <<config, listing, body, job, approved, reason, txSignature, response, calls,
                 judgeReply, chainTx, poolBalance>>

\* sendTransaction rejects: the catch at 178, then the response
SendReject(r) ==
  /\ pc[r] = "sending"
  /\ payLog' = [payLog EXCEPT ![r] = "failed: send"]
  /\ Respond(r, SuccessResponse(approved[r], reason[r], job[r], txSignature[r]))
  /\ UNCHANGED <<config, listing, body, job, approved, reason, txSignature, calls, judgeReply,
                 chainTx, poolBalance>>

\* a handler that looks at the result of confirmTransaction and
\* withdraws the approval of a transfer the cluster did not execute
ConfirmResolveChecksResult(r) ==
  /\ pc[r] = "confirming"
  /\ chainTx[r].status \in {"landed", "failed"}
  /\ payLog' = [payLog EXCEPT ![r] =
        IF chainTx[r].status = "landed" THEN "sent" ELSE "failed: confirm"]
  /\ Respond(r, IF chainTx[r].status = "landed"
                 THEN SuccessResponse(approved[r], reason[r], job[r], txSignature[r])
                 ELSE SuccessResponse(JsFalse, reason[r], job[r], JsNull))
  /\ UNCHANGED <<config, listing, body, job, approved, reason, txSignature, calls, judgeReply,
                 chainTx, poolBalance>>

\* confirmTransaction resolves, once the cluster has processed the
\* transfer; its result (value.err) is not looked at: lines 175-190
ConfirmResolve(r) ==
  /\ pc[r] = "confirming"
  /\ chainTx[r].status \in {"landed", "failed"}
  /\ payLog' = [payLog EXCEPT ![r] = "sent"]
  /\ Respond(r, SuccessResponse(approved[r], reason[r], job[r], txSignature[r]))
  /\ UNCHANGED <<config, listing, body, job, approved, reason, txSignature, calls, judgeReply,
                 chainTx, poolBalance>>

\* the rejection of confirmTransaction reaching the outer catch
ConfirmRejectEscapes(r) ==
  /\ pc[r] = "confirming"
  /\ payLog' = [payLog EXCEPT ![r] = "failed: confirm"]
  /\ Respond(r, ErrorResponse(500, "Failed to process submission"))
  /\ UNCHANGED <<config, listing, body, job, approved, reason, txSignature, calls, judgeReply,
                 chainTx, poolBalance>>

\* confirmTransaction rejects (timeout, expired blockhash, RPC error):
\* the catch at 178, then the response
ConfirmReject(r) ==
  /\ pc[r] = "confirming"
  /\ payLog' = [payLog EXCEPT ![r] = "failed: confirm"]
  /\ Respond(r, SuccessResponse(approved[r], reason[r], job[r], txSignature[r]))
  /\ UNCHANGED <<config, listing, body, job, approved, reason, txSignature, calls, judgeReply,
                 chainTx, poolBalance>>

\* the cluster executes a submitted transfer: the pool is debited
ChainLand(r) ==
  /\ chainTx[r].status = "pending"
  /\ poolBalance >= chainTx[r].lamports
  /\ chainTx' = [chainTx EXCEPT ![r].status = "landed"]
  /\ poolBalance' = poolBalance - chainTx[r].lamports
  /\ UNCHANGED <<config, listing, pc, body, job, approved, reason, txSignature, response, calls,
                 judgeReply, payLog>>

\* the cluster drops or fails a submitted transfer
ChainFail(r) ==
  /\ chainTx[r].status = "pending"
  /\ chainTx' = [chainTx EXCEPT ![r].status = "failed"]
  /\ UNCHANGED <<config, listing, pc, body, job, approved, reason, txSignature, response, calls,
                 judgeReply, payLog, poolBalance>>

Next ==
  \E r \in Requests :
    \/ Submit(r)
    \/ JudgeResolve(r)
    \/ JudgeReject(r)
    \/ SendResolve(r)
    \/ SendReject(r)
    \/ ConfirmResolve(r)
    \/ ConfirmReject(r)
    \/ ChainLand(r)
    \/ ChainFail(r)

Spec == Init /\ [][Next]_vars

\* the submissions of the progress specification: one body for each way
\* through the handler
LiveBodies ==
  { b \in Bodies :
      /\ b.jobId \in {Absent, Field(<<"3", "x">>), Field(<<"9", "9">>)}
      /\ b.wallet \in {FieldStr("W1")} \cup {FieldStr(t) : t \in ValidAddresses}
      /\ b.proofText = AbsentStr }

SubmitLive(r) == Submit(r) /\ body'[r] \in LiveBodies

NextLive ==
  \E r \in Requests :
    \/ SubmitLive(r)
    \/ JudgeResolve(r)
    \/ JudgeReject(r)
    \/ SendResolve(r)
    \/ SendReject(r)
    \/ ConfirmResolve(r)
    \/ ConfirmReject(r)
    \/ ChainLand(r)
    \/ ChainFail(r)

\* every awaited call settles: the completion, sendTransaction and
\* confirmTransaction each resolve or reject in the end
SpecLive ==
  /\ Init
  /\ [][NextLive]_vars
  /\ \A r \in Requests :
       /\ WF_vars(JudgeReject(r) \/ JudgeResolve(r))
       /\ WF_vars(SendReject(r) \/ SendResolve(r))
       /\ WF_vars(ConfirmReject(r) \/ ConfirmResolve(r))


\* GET /api/jobs: lines 77-86
ListJobs ==
  /\ listing' = JobListing(jobs)
  /\ UNCHANGED <<config, pc, body, job, approved, reason, txSignature, response, calls,
                 judgeReply, payLog, chainTx, poolBalance>>

\* the submit endpoint together with the listing endpoint
NextServer == Next \/ ListJobs

SpecServer == Init /\ [][NextServer]_vars

----------------------------------------------------------------------------
(* Vocabulary of the properties                                            *)

Submitted(r) == pc[r] # "idle"

Done(r) == pc[r] = "done"

IsSuccess(resp) == resp.status = 200 /\ "success" \in resp.keys /\ "error" \notin resp.keys

IsError(resp, code) == resp.status = code /\ resp.keys = {"error"}

NoChainCall(r) ==
  /\ calls[r].parse = 0 /\ calls[r].send = 0 /\ calls[r].confirm = 0
  /\ chainTx[r] = NoTx
  /\ pc[r] \notin {"sending", "confirming"}

\* the text of the task identifier denotes the id of a job of the catalog
Resolves(idText) ==
  \E i \in 1..Len(jobsCatalog) : parseInt(idText) = [nan |-> FALSE, n |-> jobsCatalog[i].id]

FieldGiven(f, empty) == f.present /\ f.text # empty

PassesIntake(r) ==
  /\ Submitted(r)
  /\ FieldGiven(body[r].jobId, <<>>) /\ FieldGiven(body[r].wallet, "")
  /\ Resolves(body[r].jobId.text)

\* the verdict has the shape {approved: boolean, reason: string}
WellShaped(reply) == reply.approved.type = "boolean" /\ reply.reason.type = "string"

----------------------------------------------------------------------------
(* C1: when the transfer of an approved submission was sent and            *)
(* confirmTransaction threw, the response is a success with approved true, *)
(* the nominal reward and txSignature null; and a success response has a   *)
(* non-null txSignature only if the transfer was sent and confirmed.       *)
C1_UnconfirmedTransferHasNoSignature ==
  \A r \in Requests :
    /\ (Done(r) /\ approved[r] = JsTrue /\ poolKeypair = "keypair"
          /\ payLog[r] = "failed: confirm")
         => /\ IsSuccess(response[r])
            /\ response[r].approved = JsTrue
            /\ response[r].reward = job[r].reward
            /\ response[r].txSignature = JsNull
    /\ (Done(r) /\ IsSuccess(response[r]) /\ response[r].txSignature # JsNull)
         => calls[r].send = 1 /\ chainTx[r].status = "landed"

(* C2: a reply of the backend that parses to an object not of the shape    *)
(* {approved: boolean, reason: string} ends the submission in the 500      *)
(* error response with no payout attempted.                                *)
C2_ShapeMismatchIsJudgeError ==
  \A r \in Requests :
    (judgeReply[r].kind = "object" /\ ~WellShaped(judgeReply[r]))
      => Done(r) /\ IsError(response[r], 500) /\ NoChainCall(r)

(* C3: a transfer is sent only when approved is true and the pool keypair  *)
(* is loaded, and only after the judgment of that submission completed; a  *)
(* rejected submission makes no chain call.                                *)
C3_PayoutOnlyWhenApprovedTrue ==
  \A r \in Requests :
    /\ calls[r].send > 0
         => /\ approved[r] = JsTrue
            /\ poolKeypair = "keypair"
            /\ pc[r] # "judging"
            /\ calls[r].judge > 0 => judgeReply[r].kind = "object"
    /\ (Submitted(r) /\ approved[r] = JsFalse) => NoChainCall(r)

(* C4: whatever the payout step does for an approved submission (skipped,  *)
(* address rejected, send failed, confirmation failed), the response is    *)
(* the success body with approved true and the verdict's reason.           *)
C4_PayoutFailureKeepsApproval ==
  \A r \in Requests :
    (Done(r) /\ approved[r] = JsTrue)
      => /\ IsSuccess(response[r])
         /\ response[r].approved = JsTrue
         /\ response[r].reason =
              IF judgeReply[r].kind = "object" THEN judgeReply[r].reason ELSE AutoReason

C4_Witness ==
  \E r1, r2 \in Requests :
    /\ Done(r1) /\ approved[r1] = JsTrue /\ payLog[r1] = "failed: confirm"
    /\ judgeReply[r1].kind = "object"
    /\ Done(r2) /\ approved[r2] = JsTrue /\ payLog[r2] = "failed: invalid public key"

(* C5: a submission whose jobId or wallet is missing gets the 400          *)
(* response, and no call to the backend or the chain is ever made for it.  *)
C5_MissingFieldsBadRequest ==
  \A r \in Requests :
    (Submitted(r) /\ (~body[r].jobId.present \/ ~body[r].wallet.present))
      => /\ Done(r) /\ IsError(response[r], 400)
         /\ calls[r] = NoCalls /\ NoChainCall(r) /\ judgeReply[r] = NoReply

C5_Witness ==
  \E r \in Requests :
    /\ Done(r) /\ IsError(response[r], 400)
    /\ ~body[r].wallet.present /\ body[r].jobId.text = <<"1">>
    /\ body[r].hasImage /\ openai /\ poolKeypair = "keypair"

(* C6, as stated: a submission that names a task identifier resolving to  *)
(* no job gets the 404 response, with no call to the backend or the chain. *)
C6_UnknownTaskAlwaysNotFound ==
  \A r \in Requests :
    (Submitted(r) /\ FieldGiven(body[r].jobId, <<>>) /\ ~Resolves(body[r].jobId.text))
      => /\ Done(r) /\ IsError(response[r], 404)
         /\ calls[r] = NoCalls /\ NoChainCall(r)

(* C6, amended: a submission whose task identifier resolves to no job gets *)
(* the 404 response when jobId and wallet are both given and the 400       *)
(* response otherwise; in both cases no call to the backend or the chain.  *)
C6_UnknownTaskNotFound ==
  \A r \in Requests :
    (Submitted(r) /\ ~Resolves(body[r].jobId.text))
      => /\ Done(r)
         /\ IF FieldGiven(body[r].jobId, <<>>) /\ FieldGiven(body[r].wallet, "")
            THEN IsError(response[r], 404)
            ELSE IsError(response[r], 400)
         /\ calls[r] = NoCalls /\ NoChainCall(r)

C6_Witness ==
  \E r \in Requests :
    /\ Done(r) /\ IsError(response[r], 404)
    /\ body[r].jobId.text = <<"9", "9">>
    /\ body[r].hasImage /\ openai /\ poolKeypair = "keypair"

(* C7, as stated: the backend is called for a submission exactly when it   *)
(* is configured and an image is supplied; otherwise the submission is     *)
(* approved with the fixed fallback reason.                                *)
C7_BackendIffConfiguredAndImage ==
  \A r \in Requests :
    Submitted(r)
      => /\ calls[r].judge > 0 <=> (openai /\ body[r].hasImage)
         /\ ~(openai /\ body[r].hasImage)
              => /\ approved[r] = JsTrue /\ reason[r] = AutoReason
                 /\ Done(r) => /\ IsSuccess(response[r])
                               /\ response[r].approved = JsTrue
                               /\ response[r].reason = AutoReason

(* C7, amended: for a submission that passes intake (jobId and wallet      *)
(* given, task found) the backend is called exactly when it is configured  *)
(* and an image is supplied, and otherwise the submission is approved with *)
(* the fixed fallback reason; a submission that fails intake never reaches *)
(* the backend.                                                            *)
C7_BackendIffConfiguredAndImageAfterIntake ==
  \A r \in Requests :
    /\ PassesIntake(r)
         => /\ calls[r].judge > 0 <=> (openai /\ body[r].hasImage)
            /\ ~(openai /\ body[r].hasImage)
                 => /\ approved[r] = JsTrue /\ reason[r] = AutoReason
                    /\ judgeReply[r] = NoReply
                    /\ Done(r) => /\ IsSuccess(response[r])
                                  /\ response[r].approved = JsTrue
                                  /\ response[r].reason = AutoReason
    /\ ~PassesIntake(r) => calls[r].judge = 0

C7_Witness ==
  \E r1, r2 \in Requests :
    /\ openai
    /\ PassesIntake(r1) /\ ~body[r1].hasImage /\ body[r1].proofText.present
    /\ Done(r1) /\ response[r1].reason = AutoReason /\ calls[r1].judge = 0
    /\ PassesIntake(r2) /\ body[r2].hasImage /\ calls[r2].judge = 1

(* C8: in a success response reward is the task's reward when approved is  *)
(* true and 0 when it is not.                                              *)
C8_RewardFollowsApproval ==
  \A r \in Requests :
    (Done(r) /\ IsSuccess(response[r]))
      => response[r].reward = IF response[r].approved = JsTrue THEN job[r].reward ELSE 0

(* C9: with no pool keypair loaded no chain call is made for any           *)
(* submission, and every success response has txSignature null.            *)
C9_NoPoolNoChainCall ==
  poolKeypair = "null"
    => \A r \in Requests :
         /\ NoChainCall(r)
         /\ (Done(r) /\ IsSuccess(response[r]))
              => /\ "txSignature" \in response[r].keys
                 /\ response[r].txSignature = JsNull

C9_Witness ==
  \E r \in Requests :
    /\ poolKeypair = "null"
    /\ Done(r) /\ IsSuccess(response[r]) /\ response[r].approved = JsTrue
    /\ judgeReply[r].kind = "object"
    /\ IsPublicKey(body[r].wallet.text)
    /\ response[r].txSignature = JsNull

(* C10: when the call to the backend rejects, or what it returns cannot be *)
(* parsed into a result object, the submission ends in the 500 error       *)
(* response, whose body has the error member only, and no chain call is    *)
(* made for it.                                                            *)
C10_JudgeFailureAborts ==
  \A r \in Requests :
    judgeReply[r].kind \in {"rejected", "nochoice", "notjson", "null"}
      => Done(r) /\ IsError(response[r], 500) /\ NoChainCall(r)

C10_Witness ==
  \E r1, r2 \in Requests :
    /\ poolKeypair = "keypair"
    /\ judgeReply[r1].kind = "notjson" /\ IsPublicKey(body[r1].wallet.text) /\ Done(r1)
    /\ judgeReply[r2].kind = "rejected" /\ IsPublicKey(body[r2].wallet.text) /\ Done(r2)

(* C11: the amount of every transfer is floor(reward * 1e9) computed in    *)
(* doubles; it equals the nominal reward in lamports, so it is never more  *)
(* than it: 0.05 gives 50,000,000, 0.08 gives 80,000,000 and 0.15 gives    *)
(* 150,000,000.                                                            *)
C11_LamportsExactForCatalog ==
  \A r \in Requests :
    chainTx[r].status # "none"
      => /\ chainTx[r].lamports <= job[r].reward * (LAMPORTS_PER_SOL \div 100)
         /\ job[r].reward = 5 => chainTx[r].lamports = 50000000
         /\ job[r].reward = 8 => chainTx[r].lamports = 80000000
         /\ job[r].reward = 15 => chainTx[r].lamports = 150000000
         /\ job[r].reward \in {5, 8, 15}

C11_Witness ==
  \E r1, r2 \in Requests :
    /\ chainTx[r1].status = "landed" /\ chainTx[r1].lamports = 150000000
    /\ chainTx[r2].status = "pending" /\ chainTx[r2].lamports = 80000000

C13_NoRetry ==
  \A r \in Requests :
    /\ calls[r].judge <= 1 /\ calls[r].parse <= 1
    /\ calls[r].send <= 1 /\ calls[r].confirm <= 1
    /\ calls[r].confirm <= calls[r].send

C13_Witness ==
  \E r1, r2 \in Requests :
    /\ Done(r1) /\ payLog[r1] = "failed: send" /\ calls[r1].send = 1
    /\ calls[r1].judge = 1
    /\ Done(r2) /\ judgeReply[r2] = Rejected /\ calls[r2].judge = 1

\* the transfers that were executed, in lamports
RECURSIVE LandedUpTo(_)
LandedUpTo(n) ==
  IF n = 0 THEN 0
  ELSE LandedUpTo(n - 1) + IF chainTx[n].status = "landed" THEN chainTx[n].lamports ELSE 0

(* C14: two submissions with the same task, wallet and proof are handled   *)
(* apart: each is judged by its own call to the backend and, when approved *)
(* with the pool loaded, each sends its own transfer of the full reward to *)
(* the wallet.                                                             *)
C14_NotIdempotent ==
  \A r1, r2 \in Requests :
    (r1 # r2 /\ body[r1] = body[r2] /\ PassesIntake(r1))
      => /\ (openai /\ body[r1].hasImage) => calls[r1].judge = 1 /\ calls[r2].judge = 1
         /\ \A r \in {r1, r2} :
              (approved[r] = JsTrue /\ poolKeypair = "keypair" /\ pc[r] # "judging"
                 /\ IsPublicKey(body[r].wallet.text))
                => calls[r].send = 1
         /\ \A r \in {r1, r2} :
              chainTx[r].status # "none"
                => /\ chainTx[r].to = body[r].wallet.text
                   /\ chainTx[r].lamports = Lamports(job[r].reward)

C14_Witness ==
  \E r1, r2 \in Requests :
    /\ r1 # r2 /\ body[r1] = body[r2] /\ body[r1].proofText.present
    /\ judgeReply[r1].kind = "object" /\ judgeReply[r2].kind = "object"
    /\ calls[r1].judge = 1 /\ calls[r2].judge = 1
    /\ chainTx[r1].status = "landed" /\ chainTx[r2].status = "landed"
    /\ chainTx[r1].to = chainTx[r2].to
    /\ poolBalance = InitialPoolBalance - 2 * chainTx[r1].lamports
    /\ Done(r1) /\ Done(r2)
    /\ response[r1].txSignature = Signature(r1) /\ response[r2].txSignature = Signature(r2)

(* C15: each approved submission hands its own transfer to the cluster,   *)
(* the pool is never debited beyond its balance, and a submission whose    *)
(* transfer was handed on is answered with approved true, the nominal      *)
(* reward and the signature whether or not the cluster executed the        *)
(* transfer; so of two approved submissions whose rewards the pool cannot  *)
(* both cover, both are answered as approved while at most one transfer    *)
(* succeeded.                                                              *)
C15_PayoutsNotSerialized ==
  /\ poolBalance >= 0
  /\ poolBalance + LandedUpTo(NumRequests) = InitialPoolBalance
  /\ \A r \in Requests :
       (Done(r) /\ approved[r] = JsTrue)
         => response[r].approved = JsTrue /\ response[r].reward = job[r].reward
  /\ \A r1, r2 \in Requests :
       (r1 # r2 /\ chainTx[r1].lamports + chainTx[r2].lamports > InitialPoolBalance)
         => ~(chainTx[r1].status = "landed" /\ chainTx[r2].status = "landed")

C15_Witness ==
  \E r1, r2 \in Requests :
    /\ r1 # r2
    /\ chainTx[r1].lamports + chainTx[r2].lamports > InitialPoolBalance
    /\ chainTx[r1].status = "landed" /\ chainTx[r2].status = "failed"
    /\ \A r \in {r1, r2} :
         /\ Done(r) /\ IsSuccess(response[r]) /\ response[r].approved = JsTrue
         /\ response[r].reward = job[r].reward
         /\ response[r].txSignature = Signature(r)

\* both transfers in flight together, the pool covering only one of them
C15_BothInFlight ==
  \E r1, r2 \in Requests :
    /\ r1 # r2
    /\ chainTx[r1].status = "pending" /\ chainTx[r2].status = "pending"
    /\ pc[r1] = "confirming" /\ pc[r2] = "confirming"
    /\ chainTx[r1].lamports + chainTx[r2].lamports > poolBalance

(* C16: an approved submission, with the pool loaded, whose wallet is not  *)
(* a public key sends no transfer and is answered with the success body,   *)
(* approved true, the nominal reward and txSignature null; the wallet is   *)
(* not parsed before the backend has answered.                             *)
C16_InvalidAddressUnpaid ==
  \A r \in Requests :
    /\ (PassesIntake(r) /\ poolKeypair = "keypair" /\ approved[r] = JsTrue
          /\ body[r].wallet.text \notin ValidAddresses)
         => /\ Done(r) /\ IsSuccess(response[r])
            /\ response[r].approved = JsTrue
            /\ response[r].reward = job[r].reward
            /\ response[r].txSignature = JsNull
            /\ calls[r].parse = 1 /\ calls[r].send = 0 /\ calls[r].confirm = 0
            /\ chainTx[r] = NoTx
            /\ (openai /\ body[r].hasImage)
                 => calls[r].judge = 1 /\ judgeReply[r].kind = "object"
    /\ pc[r] = "judging" => calls[r].parse = 0

C16_Witness ==
  \E r \in Requests :
    /\ poolKeypair = "keypair" /\ body[r].wallet.text = "W1"
    /\ judgeReply[r].kind = "object" /\ approved[r] = JsTrue
    /\ Done(r) /\ payLog[r] = "failed: invalid public key"

(* C17: when POOL_PRIVATE_KEY is unset or malformed the server runs with   *)
(* no pool keypair: no chain call is made for any submission, and an       *)
(* approved submission is answered with the success body and txSignature   *)
(* null.                                                                   *)
C17_StartupFailsClosed ==
  poolEnv # "valid"
    => /\ poolKeypair = "null"
       /\ \A r \in Requests :
            /\ NoChainCall(r)
            /\ (Done(r) /\ approved[r] = JsTrue)
                 => IsSuccess(response[r]) /\ response[r].txSignature = JsNull
            /\ (Done(r) /\ response[r].status = 500) => calls[r].judge = 1

C17_Witness ==
  \E r1, r2 \in Requests :
    /\ poolEnv = "badkey"
    /\ Done(r1) /\ IsSuccess(response[r1]) /\ response[r1].approved = JsTrue
    /\ IsPublicKey(body[r1].wallet.text) /\ response[r1].txSignature = JsNull
    /\ Done(r2) /\ IsSuccess(response[r2]) /\ judgeReply[r2].kind = "object"

\* the per-request state the handler of request q works on
OwnState(q) ==
  <<pc[q], body[q], job[q], approved[q], reason[q], txSignature[q], response[q], calls[q],
    judgeReply[q], payLog[q]>>

\* the response of a finished request, from its own fields and the
\* results of its own calls
OwnResponse(r) ==
  LET consulted == openai /\ body[r].hasImage
  IN IF ~(FieldGiven(body[r].jobId, <<>>) /\ FieldGiven(body[r].wallet, ""))
       THEN ErrorResponse(400, "Missing required fields")
     ELSE IF ~Resolves(body[r].jobId.text)
       THEN ErrorResponse(404, "Job not found")
     ELSE IF consulted /\ judgeReply[r].kind # "object"
       THEN ErrorResponse(500, "Failed to process submission")
     ELSE SuccessResponse(IF consulted THEN judgeReply[r].approved ELSE JsTrue,
                          IF consulted THEN judgeReply[r].reason ELSE AutoReason,
                          job[r],
                          IF calls[r].confirm = 1 THEN Signature(r) ELSE JsNull)

\* a step leaves the configuration alone and touches the state of no
\* request but the one it belongs to
FrameStep ==
  /\ jobs' = jobs /\ openai' = openai /\ poolKeypair' = poolKeypair /\ poolEnv' = poolEnv
  /\ \A q \in Requests :
       OwnState(q)' # OwnState(q)
         => \A o \in Requests \ {q} : OwnState(o)' = OwnState(o)

(* C18: no step of a submission changes the catalog, the backend           *)
(* configuration or the pool configuration, no step changes the state of   *)
(* two requests, and the response of a finished request is determined by   *)
(* its own fields and the results of its own calls.                        *)
C18_SubmissionFrame ==
  /\ [][FrameStep]_vars
  /\ [](\A r \in Requests : Done(r) => response[r] = OwnResponse(r))

C18_Witness ==
  \E r1, r2 \in Requests :
    /\ Done(r1) /\ judgeReply[r1] = Rejected /\ IsError(response[r1], 500)
    /\ openai /\ jobs = jobsCatalog /\ poolKeypair = "keypair"
    /\ Done(r2) /\ body[r2] = body[r1] /\ IsSuccess(response[r2])
    /\ response[r2].txSignature = Signature(r2)

(* C19: a request is answered exactly once: a finished handler has sent    *)
(* one of the 400, 404, 500 or success bodies, a response once sent is     *)
(* never replaced, and, every awaited call settling, every submitted       *)
(* request is answered in the end.                                         *)
C19_ExactlyOneResponse ==
  /\ [](\A r \in Requests :
          /\ Done(r) <=> response[r] # NoResponse
          /\ Done(r) => \/ IsError(response[r], 400) \/ IsError(response[r], 404)
                        \/ IsError(response[r], 500) \/ IsSuccess(response[r]))
  /\ [][\A r \in Requests : response[r] # NoResponse => response'[r] = response[r]]_vars
  /\ \A r \in Requests : Submitted(r) ~> Done(r)

C19_Witness ==
  \E r1, r2 \in Requests :
    /\ Done(r1) /\ IsError(response[r1], 500) /\ calls[r1].judge = 1
    /\ Done(r2) /\ IsSuccess(response[r2]) /\ payLog[r2] = "failed: confirm"
    /\ chainTx[r2].status = "landed"

====
